---- MODULE Spec2Model ----
(***************************************************************************)
(* Model of src/app.py: the index, stop_lab and start_lab request handlers *)
(* of the lab dashboard, the thread-pool fan-out they run over the         *)
(* configured accounts, the grouping of the instances by lab tag and the   *)
(* batched stop/start calls.                                               *)
(*                                                                         *)
(* Python strings are sequences of one-character strings, so that strip(), *)
(* lower(), f-string formatting and the code-point ordering that sort()    *)
(* uses are computed and not assumed.  A Python dict is a sequence of      *)
(* [key, val] records in insertion order.  None is the record NoneStr.     *)
(***************************************************************************)
EXTENDS Integers, Sequences, FiniteSets, TLC

(***************************************************************************)
(* Bounds of the model.                                                    *)
(***************************************************************************)
\* accounts in the configuration of a request (Spec, SpecIndex)
MaxAccounts == 2
\* accounts in the configuration of a fan-out round of SpecPool
MaxPoolAccounts == 9
\* matched identifiers handed to one account's mutating step (SpecChunk)
MaxIds == 120

(***************************************************************************)
(* Strings.                                                                *)
(***************************************************************************)
\* the printable ASCII characters, in code-point order (32 .. 126); the entry
\* of code 96 is spelled out, no string of the model holds it
Printable ==
    <<" ", "!", "\"", "#", "$", "%", "&", "'", "(", ")", "*", "+", ",", "-", ".", "/",
      "0", "1", "2", "3", "4", "5", "6", "7", "8", "9", ":", ";", "<", "=", ">", "?",
      "@", "A", "B", "C", "D", "E", "F", "G", "H", "I", "J", "K", "L", "M", "N", "O",
      "P", "Q", "R", "S", "T", "U", "V", "W", "X", "Y", "Z", "[", "\\", "]", "^", "_",
      "backquote", "a", "b", "c", "d", "e", "f", "g", "h", "i", "j", "k", "l", "m", "n", "o",
      "p", "q", "r", "s", "t", "u", "v", "w", "x", "y", "z", "{", "|", "}", "~">>

\* ord(c): the code point of a character
ord == [c \in {Printable[k] : k \in 1..Len(Printable)} |->
           31 + (CHOOSE k \in 1..Len(Printable) : Printable[k] = c)]

chr(n) == Printable[n - 31]

Min(a, b) == IF a <= b THEN a ELSE b

Max(a, b) == IF a >= b THEN a ELSE b

\* str.lower() on one character, and on a string
lower_char(c) == IF ord[c] >= 65 /\ ord[c] <= 90 THEN chr(ord[c] + 32) ELSE c

lower(s) == [k \in 1..Len(s) |-> lower_char(s[k])]

\* Python's < on str: lexicographic on code points, a proper prefix is smaller
str_lt(s, t) ==
    \E k \in 1..(Min(Len(s), Len(t)) + 1) :
        /\ \A j \in 1..(k - 1) : s[j] = t[j]
        /\ \/ k > Len(s) /\ k <= Len(t)
           \/ k <= Len(s) /\ k <= Len(t) /\ ord[s[k]] < ord[t[k]]

\* str.strip(): leading and trailing whitespace removed
is_space(c) == c = " "

RECURSIVE lstrip(_)
lstrip(s) == IF s # <<>> /\ is_space(Head(s)) THEN lstrip(Tail(s)) ELSE s

RECURSIVE rstrip(_)
rstrip(s) ==
    IF s # <<>> /\ is_space(s[Len(s)]) THEN rstrip(SubSeq(s, 1, Len(s) - 1)) ELSE s

strip(s) == rstrip(lstrip(s))

\* str(n) of a natural number, as in f"{len(ids)}"
RECURSIVE str_of_int(_)
str_of_int(n) ==
    IF n < 10 THEN <<chr(48 + n)>> ELSE str_of_int(n \div 10) \o <<chr(48 + (n % 10))>>

IsPrefix(p, s) == Len(p) <= Len(s) /\ SubSeq(s, 1, Len(p)) = p

Range(s) == {s[k] : k \in 1..Len(s)}

\* None, and a present string, where the code tells them apart
NoneStr == [some |-> FALSE, str |-> <<>>]

Some(s) == [some |-> TRUE, str |-> s]

\* Python's `x or default` on an optional string: None and "" are falsy
or_default(x, default) == IF x.some /\ x.str # <<>> THEN x.str ELSE default

(***************************************************************************)
(* String literals of the source.                                          *)
(***************************************************************************)
NO_LAB_TAG == <<"(", "n", "o", " ", "l", "a", "b", " ", "t", "a", "g", ")">>

LAB_NAME_REQUIRED ==
    <<"L", "a", "b", " ", "n", "a", "m", "e", " ", "i", "s", " ",
      "r", "e", "q", "u", "i", "r", "e", "d", ".">>

RUNNING == <<"r", "u", "n", "n", "i", "n", "g">>

STOPPED == <<"s", "t", "o", "p", "p", "e", "d">>

\* the states the provider reports after a stop and after a start call
STOPPING == <<"s", "t", "o", "p", "p", "i", "n", "g">>

PENDING == <<"p", "e", "n", "d", "i", "n", "g">>

\* the text of the exception a failing remote call raises
EXC == <<"C", "l", "i", "e", "n", "t", "E", "r", "r", "o", "r">>

(***************************************************************************)
(* Records.  An account is [name, region] (the credentials are opaque); a  *)
(* described EC2 instance is [InstanceId, State, lab], lab being the value *)
(* of its "lab" tag or None; an instance record is what                    *)
(* transform_instance makes of it.                                         *)
(***************************************************************************)
transform_instance(account_name, ec2) ==
    [account     |-> account_name,
     instance_id |-> ec2.InstanceId,
     state       |-> ec2.State,
     lab         |-> ec2.lab]

\* fetch_instances_for_account, given what describe_instances pages hold
fetch_instances_for_account(account, reservations) ==
    [n \in 1..Len(reservations) |-> transform_instance(account.name, reservations[n])]

\* the message of the RuntimeError it raises when the remote call fails
fetch_error(account, exc) ==
    <<"E", "r", "r", "o", "r", " ", "f", "e", "t", "c", "h", "i", "n", "g", " ",
      "E", "C", "2", " ", "i", "n", "s", "t", "a", "n", "c", "e", "s", " ", "i", "n", " ">>
    \o account.name \o <<" ", "(">> \o account.region \o <<")", ":", " ">> \o exc

(***************************************************************************)
(* dict: a sequence of [key, val] in insertion order.                      *)
(***************************************************************************)
dict_keys(d) == [n \in 1..Len(d) |-> d[n].key]

dict_has(d, key) == \E n \in 1..Len(d) : d[n].key = key

dict_get(d, key) == d[CHOOSE n \in 1..Len(d) : d[n].key = key].val

\* d[key] = items: the list of a second account replaces the first account's
setdefault_assign(d, key, items) ==
    IF dict_has(d, key)
    THEN [n \in 1..Len(d) |->
             IF d[n].key = key THEN [key |-> key, val |-> items] ELSE d[n]]
    ELSE Append(d, [key |-> key, val |-> items])

\* d.setdefault(key, []).extend(items)
setdefault_extend(d, key, items) ==
    IF dict_has(d, key)
    THEN [n \in 1..Len(d) |->
             IF d[n].key = key THEN [key |-> key, val |-> d[n].val \o items] ELSE d[n]]
    ELSE Append(d, [key |-> key, val |-> items])

(***************************************************************************)
(* fetch_all_accounts_grouped_by_lab: the worker's task and the merge.     *)
(***************************************************************************)
\* lab_name = instance.get("lab") or "(no lab tag)"             (line 227)
task_lab_name(instance) == or_default(instance.lab, NO_LAB_TAG)

\* the loop of lines 226-228 over a listing
RECURSIVE task_grouped(_)
task_grouped(instances) ==
    IF instances = <<>> THEN <<>>
    ELSE LET n == Len(instances)
         IN  setdefault_extend(task_grouped(SubSeq(instances, 1, n - 1)),
                               task_lab_name(instances[n]), <<instances[n]>>)

\* task(account) when the listing call returns
task_ok(account, reservations) ==
    [name    |-> account.name,
     payload |-> task_grouped(fetch_instances_for_account(account, reservations)),
     errs    |-> <<>>]

\* a task whose error string does not name its account
task_failed_anonymous(account, exc) ==
    [name    |-> <<"u", "n", "k", "n", "o", "w", "n">>,
     payload |-> <<>>,
     errs    |-> <<<<"u", "n", "k", "n", "o", "w", "n", ":", " ">>
                    \o fetch_error(account, exc)>>]

\* task(account) when it raises: f"{account.get('name', 'unknown')}: {exc}"
task_failed(account, exc) ==
    [name    |-> account.name,
     payload |-> <<>>,
     errs    |-> <<account.name \o <<":", " ">> \o fetch_error(account, exc)>>]

\* lines 239-240: merge one worker's groups into labs_to_instances
RECURSIVE merge_grouped(_, _)
merge_grouped(labs, grouped_result) ==
    IF grouped_result = <<>> THEN labs
    ELSE merge_grouped(setdefault_extend(labs, Head(grouped_result).key,
                                         Head(grouped_result).val),
                       Tail(grouped_result))

\* the key of line 245, (account, instance_id), compared as Python compares tuples
instance_key_lt(x, y) ==
    \/ str_lt(x.account, y.account)
    \/ x.account = y.account /\ str_lt(x.instance_id, y.instance_id)

\* list.sort is stable: an element goes after the elements that are not greater
insert_instance(sorted, x) ==
    LET after == {n \in 1..Len(sorted) : instance_key_lt(x, sorted[n])}
        at    == IF after = {} THEN Len(sorted) + 1
                 ELSE CHOOSE n \in after : \A m \in after : n <= m
    IN  SubSeq(sorted, 1, at - 1) \o <<x>> \o SubSeq(sorted, at, Len(sorted))

RECURSIVE sort_instances(_)
sort_instances(instances) ==
    IF instances = <<>> THEN <<>>
    ELSE insert_instance(sort_instances(SubSeq(instances, 1, Len(instances) - 1)),
                         instances[Len(instances)])

\* the key of line 248: item[0].lower()
lab_sort_key(item) == lower(item.key)

insert_item(sorted, item) ==
    LET after == {n \in 1..Len(sorted) :
                     str_lt(lab_sort_key(item), lab_sort_key(sorted[n]))}
        at    == IF after = {} THEN Len(sorted) + 1
                 ELSE CHOOSE n \in after : \A m \in after : n <= m
    IN  SubSeq(sorted, 1, at - 1) \o <<item>> \o SubSeq(sorted, at, Len(sorted))

\* sorted(labs_to_instances.items(), key=...), made a dict again
RECURSIVE sorted_items(_)
sorted_items(d) ==
    IF d = <<>> THEN <<>>
    ELSE insert_item(sorted_items(SubSeq(d, 1, Len(d) - 1)), d[Len(d)])

\* lines 243-250: what fetch_all_accounts_grouped_by_lab returns of the merged dict
sort_labs(labs) ==
    sorted_items([n \in 1..Len(labs) |->
                     [key |-> labs[n].key, val |-> sort_instances(labs[n].val)]])

\* a pool with a thread per account
fetch_max_workers_per_account(n_accounts) == Max(1, n_accounts)

\* max_workers of line 234
fetch_max_workers(n_accounts) == Min(8, Max(1, n_accounts))

(***************************************************************************)
(* summarize_labs and compute_overall_counts.                              *)
(***************************************************************************)
\* sorted(S) of a set of strings
RECURSIVE sorted_strs(_)
sorted_strs(S) ==
    IF S = {} THEN <<>>
    ELSE LET m == CHOOSE x \in S : \A y \in S \ {x} : str_lt(x, y)
         IN  <<m>> \o sorted_strs(S \ {m})

\* a count of the instances that are not stopped
count_not_stopped(instances) ==
    Cardinality({k \in 1..Len(instances) : instances[k].state # STOPPED})

\* sum(1 for i in instances if i.get("state") == "running")
RECURSIVE count_running(_)
count_running(instances) ==
    IF instances = <<>> THEN 0
    ELSE (IF Head(instances).state = RUNNING THEN 1 ELSE 0)
         + count_running(Tail(instances))

summarize_labs(labs) ==
    [n \in 1..Len(labs) |->
        [key |-> labs[n].key,
         val |-> [total      |-> Len(labs[n].val),
                  powered_up |-> count_running(labs[n].val),
                  accounts   |-> sorted_strs({x.account : x \in
                                     {y \in Range(labs[n].val) : y.account # <<>>}})]]]

RECURSIVE sum_total(_)
sum_total(summary) ==
    IF summary = <<>> THEN 0 ELSE Head(summary).val.total + sum_total(Tail(summary))

RECURSIVE sum_powered_up(_)
sum_powered_up(summary) ==
    IF summary = <<>> THEN 0
    ELSE Head(summary).val.powered_up + sum_powered_up(Tail(summary))

\* a total that counts the groups
compute_overall_counts_groups(summary) ==
    LET total      == Len(summary)
        powered_up == sum_powered_up(summary)
    IN  [total |-> total, powered_up |-> powered_up, off |-> total - powered_up]

compute_overall_counts(summary) ==
    LET total      == sum_total(summary)
        powered_up == sum_powered_up(summary)
    IN  [total |-> total, powered_up |-> powered_up, off |-> total - powered_up]

(***************************************************************************)
(* stop_lab and start_lab: validation, the select worker, the messages.    *)
(***************************************************************************)
\* a target label that is not stripped
stop_target_lab_unstripped(lab_name) == or_default(lab_name, <<>>)

\* (request.form.get("lab_name") or "").strip()              (lines 40, 100)
stop_target_lab(lab_name) == strip(or_default(lab_name, <<>>))

start_target_lab(lab_name) == strip(or_default(lab_name, <<>>))

\* a filter that compares the raw tag, without the sentinel
stop_matches_raw_tag(instance, target) ==
    instance.lab.some /\ instance.lab.str = target /\ instance.state = RUNNING

\* a filter that forgets the state
stop_matches_any_state(instance, target) ==
    or_default(instance.lab, NO_LAB_TAG) = target

\* the filter of lines 56-60
stop_matches(instance, target) ==
    or_default(instance.lab, NO_LAB_TAG) = target /\ instance.state = RUNNING

\* a start filter that kept the precondition of stop
start_matches_running(instance, target) ==
    or_default(instance.lab, NO_LAB_TAG) = target /\ instance.state = RUNNING

\* the filter of lines 116-120
start_matches(instance, target) ==
    or_default(instance.lab, NO_LAB_TAG) = target /\ instance.state = STOPPED

\* the list comprehensions of lines 56-60 and 116-120
stop_ids(instances, target) ==
    LET matched == SelectSeq(instances, LAMBDA x : stop_matches(x, target))
    IN  [n \in 1..Len(matched) |-> matched[n].instance_id]

start_ids(instances, target) ==
    LET matched == SelectSeq(instances, LAMBDA x : start_matches(x, target))
    IN  [n \in 1..Len(matched) |-> matched[n].instance_id]

\* collect_task(acct) of stop_lab when the listing call returns, and when it raises
stop_collect_ok(acct, reservations, target) ==
    [name    |-> acct.name,
     payload |-> stop_ids(fetch_instances_for_account(acct, reservations), target),
     errs    |-> <<>>]

stop_collect_failed(acct, exc) ==
    [name    |-> acct.name,
     payload |-> <<>>,
     errs    |-> <<acct.name \o <<":", " ">> \o fetch_error(acct, exc)>>]

\* the same of start_lab
start_collect_ok(acct, reservations, target) ==
    [name    |-> acct.name,
     payload |-> start_ids(fetch_instances_for_account(acct, reservations), target),
     errs    |-> <<>>]

start_collect_failed(acct, exc) ==
    [name    |-> acct.name,
     payload |-> <<>>,
     errs    |-> <<acct.name \o <<":", " ">> \o fetch_error(acct, exc)>>]

\* f"{acct_name}: stopping {len(ids)} instance(s) in lab '{target_lab}'"
stop_message(acct_name, ids, target) ==
    acct_name \o <<":", " ", "s", "t", "o", "p", "p", "i", "n", "g", " ">>
    \o str_of_int(Len(ids))
    \o <<" ", "i", "n", "s", "t", "a", "n", "c", "e", "(", "s", ")", " ",
         "i", "n", " ", "l", "a", "b", " ", "'">>
    \o target \o <<"'">>

\* f"{acct_name}: starting {len(ids)} instance(s) in lab '{target_lab}'"
start_message(acct_name, ids, target) ==
    acct_name \o <<":", " ", "s", "t", "a", "r", "t", "i", "n", "g", " ">>
    \o str_of_int(Len(ids))
    \o <<" ", "i", "n", "s", "t", "a", "n", "c", "e", "(", "s", ")", " ",
         "i", "n", " ", "l", "a", "b", " ", "'">>
    \o target \o <<"'">>

\* max_workers of lines 65 and 125
stop_max_workers(n_accounts) == Min(8, Max(1, n_accounts))

start_max_workers(n_accounts) == Min(8, Max(1, n_accounts))

(***************************************************************************)
(* stop_instances_for_account and start_instances_for_account.             *)
(***************************************************************************)
\* chunk_size of lines 302 and 328
stop_chunk_size == 50

start_chunk_size == 50

\* a chunk that takes one identifier more
stop_chunk_inclusive(instance_ids, i) ==
    SubSeq(instance_ids, i + 1, Min(i + stop_chunk_size + 1, Len(instance_ids)))

\* chunk = instance_ids[i : i + chunk_size]
stop_chunk(instance_ids, i) ==
    SubSeq(instance_ids, i + 1, Min(i + stop_chunk_size, Len(instance_ids)))

start_chunk(instance_ids, i) ==
    SubSeq(instance_ids, i + 1, Min(i + start_chunk_size, Len(instance_ids)))

\* whether range(0, len(instance_ids), chunk_size) holds a value after i
stop_has_next(instance_ids, i) == i + stop_chunk_size < Len(instance_ids)

start_has_next(instance_ids, i) == i + start_chunk_size < Len(instance_ids)

\* the RuntimeError of lines 308 and 334, as the handler records it (80, 139)
stop_error(acct, exc) ==
    acct.name \o <<":", " ", "s", "t", "o", "p", " ", "f", "a", "i", "l", "e", "d", ":", " ">>
    \o <<"s", "t", "o", "p", "_", "i", "n", "s", "t", "a", "n", "c", "e", "s", " ",
         "f", "a", "i", "l", "e", "d", " ", "i", "n", " ">>
    \o acct.name \o <<" ", "(">> \o acct.region \o <<")", ":", " ">> \o exc

start_error(acct, exc) ==
    acct.name \o <<":", " ", "s", "t", "a", "r", "t", " ", "f", "a", "i", "l", "e", "d", ":", " ">>
    \o <<"s", "t", "a", "r", "t", "_", "i", "n", "s", "t", "a", "n", "c", "e", "s", " ",
         "f", "a", "i", "l", "e", "d", " ", "i", "n", " ">>
    \o acct.name \o <<" ", "(">> \o acct.region \o <<")", ":", " ">> \o exc

\* what the provider does to the instances of a successful call
stopped_by(reservations, chunk) ==
    [n \in 1..Len(reservations) |->
        IF reservations[n].InstanceId \in Range(chunk)
        THEN [reservations[n] EXCEPT !.State = STOPPING] ELSE reservations[n]]

started_by(reservations, chunk) ==
    [n \in 1..Len(reservations) |->
        IF reservations[n].InstanceId \in Range(chunk)
        THEN [reservations[n] EXCEPT !.State = PENDING] ELSE reservations[n]]

(***************************************************************************)
(* The inputs of a request: the configured accounts, what each account's   *)
(* describe_instances holds, and the lab_name field of the form.           *)
(***************************************************************************)
\* account names, in the order of the configuration file (not sorted)
ACCOUNT_LETTERS == <<"B", "A", "C", "D", "E", "F", "G", "H", "I", "J", "K", "M">>

REGION == <<"e", "u">>

accounts_of(n) == [t \in 1..n |-> [name |-> <<ACCOUNT_LETTERS[t]>>, region |-> REGION]]

ec2(id, state, lab) == [InstanceId |-> id, State |-> state, lab |-> lab]

\* the n-th instance identifier
instance_id_of(n) == <<"i">> \o str_of_int(n)

\* listings an account may hold: identifiers out of order, labels that differ
\* in case only, no tag, an empty tag, a transitional state
LISTINGS ==
    { <<>>,
      <<ec2(instance_id_of(2), RUNNING, Some(<<"L", "a", "b">>)),
        ec2(instance_id_of(1), STOPPED, Some(<<"L", "a", "b">>))>>,
      <<ec2(instance_id_of(1), RUNNING, Some(<<"l", "a", "b">>)),
        ec2(instance_id_of(2), PENDING, Some(<<"L", "a", "b">>))>>,
      <<ec2(instance_id_of(1), RUNNING, NoneStr),
        ec2(instance_id_of(2), STOPPED, Some(<<>>))>> }

\* values of the lab_name form field: absent, blank, padded, the sentinel
LAB_NAMES ==
    { NoneStr,
      Some(<<" ", " ">>),
      Some(<<" ", "L", "a", "b", " ">>),
      Some(NO_LAB_TAG) }

\* what load_accounts_config reports besides the accounts it keeps
CONFIG_ERRORS ==
    { <<>>,
      << <<"A", "c", "c", "o", "u", "n", "t", " ", "e", "n", "t", "r", "y", " ", "#", "1",
           " ", "m", "u", "s", "t", " ", "b", "e", " ", "a", "n", " ",
           "o", "b", "j", "e", "c", "t", ".">> >> }

VARIABLES
    kind,               \* the route: "index", "stop" or "start"
    lab_name,           \* request.form.get("lab_name")
    accounts,           \* the accounts load_accounts_config returns
    config_errors,      \* and its errors
    world,              \* world[t]: what account t's describe_instances holds
    pc,                 \* where the handler's thread is
    target_lab,
    errors,
    messages,
    per_account_ids,    \* [acct, ids], acct the index of the account
    acct_idx,           \* position of the loop of lines 76 / 135
    chunk_i,            \* i of the loop of lines 303 / 329
    labs_to_instances,
    fetch_errors,       \* errors of fetch_all_accounts_grouped_by_lab
    summary,
    overall,
    status,             \* status[t]: the future of account t in the running round
    result,             \* result[t]: what that future holds
    reads,              \* every listing call made: [round, acct]
    calls,              \* every stop/start call made: [op, acct, ids, ok]
    selected,           \* selected[t]: what the select round's listing returned
    failed              \* the listing calls that failed: <<round, acct>>

vars == <<kind, lab_name, accounts, config_errors, world, pc, target_lab, errors,
          messages, per_account_ids, acct_idx, chunk_i, labs_to_instances,
          fetch_errors, summary, overall, status, result, reads, calls, selected,
          failed>>

N == Len(accounts)

NO_RESULT == [name |-> <<>>, payload |-> <<>>, errs |-> <<>>]

\* the locals of a handler before its first statement
Locals ==
    /\ pc = "start"
    /\ target_lab = <<>>
    /\ errors = <<>>
    /\ messages = <<>>
    /\ per_account_ids = <<>>
    /\ acct_idx = 1
    /\ chunk_i = 0
    /\ labs_to_instances = <<>>
    /\ fetch_errors = <<>>
    /\ summary = <<>>
    /\ overall = [total |-> 0, powered_up |-> 0, off |-> 0]
    /\ status = [t \in 1..N |-> "new"]
    /\ result = [t \in 1..N |-> NO_RESULT]
    /\ reads = <<>>
    /\ calls = <<>>
    /\ selected = [t \in 1..N |-> <<>>]
    /\ failed = {}

\* the requests checked: every route with every lab_name, and a configuration
\* that reported an error with the index route and with an absent lab_name
REQUESTS ==
    [kind : {"index"}, lab_name : {NoneStr}, config_errors : CONFIG_ERRORS]
    \cup [kind : {"stop", "start"}, lab_name : LAB_NAMES, config_errors : {<<>>}]
    \cup [kind : {"stop", "start"}, lab_name : {NoneStr},
          config_errors : CONFIG_ERRORS \ {<<>>}]

Init ==
    /\ \E r \in REQUESTS :
          /\ kind = r.kind
          /\ lab_name = r.lab_name
          /\ config_errors = r.config_errors
    /\ accounts \in {accounts_of(n) : n \in 0..MaxAccounts}
    /\ world \in [1..N -> LISTINGS]
    /\ Locals

(***************************************************************************)
(* The handlers' first statements.                                         *)
(***************************************************************************)
request_vars == <<kind, lab_name, accounts, config_errors>>

round_vars == <<status, result>>

mutate_vars == <<per_account_ids, acct_idx, chunk_i, calls>>

view_vars == <<labs_to_instances, fetch_errors, summary, overall>>

\* index(), lines 21-24: up to the call of fetch_all_accounts_grouped_by_lab
index ==
    /\ pc = "start" /\ kind = "index"
    /\ pc' = "aggregate"
    /\ UNCHANGED <<request_vars, world, target_lab, errors, messages, mutate_vars,
                   view_vars, round_vars, reads, selected, failed>>

\* stop_lab(), lines 40-51
stop_lab ==
    /\ pc = "start" /\ kind = "stop"
    /\ target_lab' = stop_target_lab(lab_name)
    /\ IF target_lab' = <<>>
       THEN errors' = Append(errors, LAB_NAME_REQUIRED) /\ pc' = "aggregate"
       ELSE errors' = errors /\ pc' = "select"
    /\ UNCHANGED <<request_vars, world, messages, mutate_vars, view_vars, round_vars,
                   reads, selected, failed>>

\* start_lab(), lines 100-111
start_lab ==
    /\ pc = "start" /\ kind = "start"
    /\ target_lab' = start_target_lab(lab_name)
    /\ IF target_lab' = <<>>
       THEN errors' = Append(errors, LAB_NAME_REQUIRED) /\ pc' = "aggregate"
       ELSE errors' = errors /\ pc' = "select"
    /\ UNCHANGED <<request_vars, world, messages, mutate_vars, view_vars, round_vars,
                   reads, selected, failed>>

(***************************************************************************)
(* A fan-out round: ThreadPoolExecutor(max_workers), submit, as_completed. *)
(***************************************************************************)
with_status(st) == {t \in 1..N : status[t] = st}

lowest(S) == CHOOSE t \in S : \A u \in S : t <= u

max_workers ==
    IF pc = "aggregate" THEN fetch_max_workers(N)
    ELSE IF kind = "stop" THEN stop_max_workers(N) ELSE start_max_workers(N)

\* executor.submit(...) of the next account of the comprehension (66, 126, 235)
submit ==
    /\ pc \in {"select", "aggregate"}
    /\ with_status("new") # {}
    /\ status' = [status EXCEPT ![lowest(with_status("new"))] = "queued"]
    /\ UNCHANGED <<request_vars, world, pc, target_lab, errors, messages, mutate_vars,
                   view_vars, result, reads, selected, failed>>

\* a pool thread takes the oldest queued work item and calls the listing
worker_start ==
    /\ pc \in {"select", "aggregate"}
    /\ with_status("queued") # {}
    /\ Cardinality(with_status("running")) < max_workers
    /\ LET t == lowest(with_status("queued"))
       IN  /\ status' = [status EXCEPT ![t] = "running"]
           /\ reads' = Append(reads, [round |-> pc, acct |-> t])
    /\ UNCHANGED <<request_vars, world, pc, target_lab, errors, messages, mutate_vars,
                   view_vars, result, selected, failed>>

\* the listing of account t returns and the work item completes
worker_return(t) ==
    /\ pc \in {"select", "aggregate"}
    /\ status[t] = "running"
    /\ status' = [status EXCEPT ![t] = "finished"]
    /\ result' = [result EXCEPT ![t] =
           IF pc = "aggregate" THEN task_ok(accounts[t], world[t])
           ELSE IF kind = "stop" THEN stop_collect_ok(accounts[t], world[t], target_lab)
           ELSE start_collect_ok(accounts[t], world[t], target_lab)]
    /\ selected' = IF pc = "select"
                   THEN [selected EXCEPT ![t] =
                            fetch_instances_for_account(accounts[t], world[t])]
                   ELSE selected
    /\ UNCHANGED <<request_vars, world, pc, target_lab, errors, messages, mutate_vars,
                   view_vars, reads, failed>>

\* a work item that appends its error to the handler's list itself
worker_raise_writes(t) ==
    /\ pc \in {"select", "aggregate"}
    /\ status[t] = "running"
    /\ status' = [status EXCEPT ![t] = "finished"]
    /\ result' = [result EXCEPT ![t] = [name    |-> accounts[t].name,
                                        payload |-> <<>>,
                                        errs    |-> <<>>]]
    /\ errors' = errors \o task_failed(accounts[t], EXC).errs
    /\ failed' = failed \cup {<<pc, t>>}
    /\ UNCHANGED <<request_vars, world, pc, target_lab, messages, mutate_vars,
                   view_vars, reads, selected>>

\* the listing of account t fails; the work item catches it and completes
worker_raise(t) ==
    /\ pc \in {"select", "aggregate"}
    /\ status[t] = "running"
    /\ status' = [status EXCEPT ![t] = "finished"]
    /\ result' = [result EXCEPT ![t] =
           IF pc = "aggregate" THEN task_failed(accounts[t], EXC)
           ELSE IF kind = "stop" THEN stop_collect_failed(accounts[t], EXC)
           ELSE start_collect_failed(accounts[t], EXC)]
    /\ failed' = failed \cup {<<pc, t>>}
    /\ UNCHANGED <<request_vars, world, pc, target_lab, errors, messages, mutate_vars,
                   view_vars, reads, selected>>

\* a turn of the loop that records every account, matched or not
select_collect_unguarded(t) ==
    /\ pc = "select"
    /\ with_status("new") = {}
    /\ status[t] = "finished"
    /\ status' = [status EXCEPT ![t] = "collected"]
    /\ errors' = errors \o result[t].errs
    /\ per_account_ids' =
           Append(per_account_ids, [acct |-> t, ids |-> result[t].payload])
    /\ messages' = Append(messages,
           IF kind = "stop"
           THEN stop_message(result[t].name, result[t].payload, target_lab)
           ELSE start_message(result[t].name, result[t].payload, target_lab))
    /\ UNCHANGED <<request_vars, world, pc, target_lab, acct_idx, chunk_i, calls,
                   view_vars, result, reads, selected, failed>>

\* one turn of the as_completed loop of stop_lab / start_lab (67-73, 127-132)
select_collect(t) ==
    /\ pc = "select"
    /\ with_status("new") = {}
    /\ status[t] = "finished"
    /\ status' = [status EXCEPT ![t] = "collected"]
    /\ errors' = errors \o result[t].errs
    /\ IF result[t].payload # <<>>
       THEN /\ per_account_ids' =
                   Append(per_account_ids, [acct |-> t, ids |-> result[t].payload])
            /\ messages' = Append(messages,
                   IF kind = "stop"
                   THEN stop_message(result[t].name, result[t].payload, target_lab)
                   ELSE start_message(result[t].name, result[t].payload, target_lab))
       ELSE UNCHANGED <<per_account_ids, messages>>
    /\ UNCHANGED <<request_vars, world, pc, target_lab, acct_idx, chunk_i, calls,
                   view_vars, result, reads, selected, failed>>

\* a round that ends with the first collected future
select_done_early ==
    /\ pc = "select"
    /\ \E t \in 1..N : status[t] = "collected"
    /\ pc' = "mutate"
    /\ UNCHANGED <<request_vars, world, target_lab, errors, messages, mutate_vars,
                   view_vars, round_vars, reads, selected, failed>>

\* the loop is exhausted and the executor shut down: on to the mutating loop
select_done ==
    /\ pc = "select"
    /\ \A t \in 1..N : status[t] = "collected"
    /\ pc' = "mutate"
    /\ UNCHANGED <<request_vars, world, target_lab, errors, messages, mutate_vars,
                   view_vars, round_vars, reads, selected, failed>>

(***************************************************************************)
(* The mutating loop (lines 76-80, 135-139) and the calls it makes, one    *)
(* chunk a step.  The lists it walks are never empty (lines 71, 130), so   *)
(* the early return of lines 285 / 312 is not taken.                       *)
(***************************************************************************)
current == per_account_ids[acct_idx]

in_mutate(op) == pc = "mutate" /\ kind = op /\ acct_idx <= Len(per_account_ids)

\* client.stop_instances(InstanceIds=chunk, Force=False) returns
stop_call_ok ==
    /\ in_mutate("stop")
    /\ LET chunk == stop_chunk(current.ids, chunk_i)
       IN  /\ calls' = Append(calls, [op |-> "stop", acct |-> current.acct,
                                      ids |-> chunk, ok |-> TRUE])
           /\ world' = [world EXCEPT ![current.acct] = stopped_by(@, chunk)]
    /\ IF stop_has_next(current.ids, chunk_i)
       THEN chunk_i' = chunk_i + stop_chunk_size /\ acct_idx' = acct_idx
       ELSE chunk_i' = 0 /\ acct_idx' = acct_idx + 1
    /\ UNCHANGED <<request_vars, pc, target_lab, errors, messages, per_account_ids,
                   view_vars, round_vars, reads, selected, failed>>

\* a failure that is recorded while the loop over the chunks goes on
stop_call_failed_continues ==
    /\ in_mutate("stop")
    /\ calls' = Append(calls, [op |-> "stop", acct |-> current.acct,
                               ids |-> stop_chunk(current.ids, chunk_i), ok |-> FALSE])
    /\ errors' = Append(errors, stop_error(accounts[current.acct], EXC))
    /\ IF stop_has_next(current.ids, chunk_i)
       THEN chunk_i' = chunk_i + stop_chunk_size /\ acct_idx' = acct_idx
       ELSE chunk_i' = 0 /\ acct_idx' = acct_idx + 1
    /\ UNCHANGED <<request_vars, world, pc, target_lab, messages, per_account_ids,
                   view_vars, round_vars, reads, selected, failed>>

\* a failure that leaves the handler as an unhandled error
stop_call_failed_escapes ==
    /\ in_mutate("stop")
    /\ calls' = Append(calls, [op |-> "stop", acct |-> current.acct,
                               ids |-> stop_chunk(current.ids, chunk_i), ok |-> FALSE])
    /\ pc' = "unhandled"
    /\ UNCHANGED <<request_vars, world, target_lab, errors, messages, per_account_ids,
                   acct_idx, chunk_i, view_vars, round_vars, reads, selected, failed>>

\* a failure that ends the loop over the accounts
stop_call_failed_aborts ==
    /\ in_mutate("stop")
    /\ calls' = Append(calls, [op |-> "stop", acct |-> current.acct,
                               ids |-> stop_chunk(current.ids, chunk_i), ok |-> FALSE])
    /\ errors' = Append(errors, stop_error(accounts[current.acct], EXC))
    /\ chunk_i' = 0 /\ acct_idx' = Len(per_account_ids) + 1
    /\ UNCHANGED <<request_vars, world, pc, target_lab, messages, per_account_ids,
                   view_vars, round_vars, reads, selected, failed>>

\* it raises: stop_instances_for_account raises, stop_lab records the error
stop_call_failed ==
    /\ in_mutate("stop")
    /\ calls' = Append(calls, [op |-> "stop", acct |-> current.acct,
                               ids |-> stop_chunk(current.ids, chunk_i), ok |-> FALSE])
    /\ errors' = Append(errors, stop_error(accounts[current.acct], EXC))
    /\ chunk_i' = 0 /\ acct_idx' = acct_idx + 1
    /\ UNCHANGED <<request_vars, world, pc, target_lab, messages, per_account_ids,
                   view_vars, round_vars, reads, selected, failed>>

\* client.start_instances(InstanceIds=chunk) returns
start_call_ok ==
    /\ in_mutate("start")
    /\ LET chunk == start_chunk(current.ids, chunk_i)
       IN  /\ calls' = Append(calls, [op |-> "start", acct |-> current.acct,
                                      ids |-> chunk, ok |-> TRUE])
           /\ world' = [world EXCEPT ![current.acct] = started_by(@, chunk)]
    /\ IF start_has_next(current.ids, chunk_i)
       THEN chunk_i' = chunk_i + start_chunk_size /\ acct_idx' = acct_idx
       ELSE chunk_i' = 0 /\ acct_idx' = acct_idx + 1
    /\ UNCHANGED <<request_vars, pc, target_lab, errors, messages, per_account_ids,
                   view_vars, round_vars, reads, selected, failed>>

start_call_failed ==
    /\ in_mutate("start")
    /\ calls' = Append(calls, [op |-> "start", acct |-> current.acct,
                               ids |-> start_chunk(current.ids, chunk_i), ok |-> FALSE])
    /\ errors' = Append(errors, start_error(accounts[current.acct], EXC))
    /\ chunk_i' = 0 /\ acct_idx' = acct_idx + 1
    /\ UNCHANGED <<request_vars, world, pc, target_lab, messages, per_account_ids,
                   view_vars, round_vars, reads, selected, failed>>

\* a recompute that starts after the first account of the loop
mutate_done_early ==
    /\ pc = "mutate"
    /\ acct_idx > Min(1, Len(per_account_ids))
    /\ pc' = "aggregate"
    /\ status' = [t \in 1..N |-> "new"]
    /\ result' = [t \in 1..N |-> NO_RESULT]
    /\ UNCHANGED <<request_vars, world, target_lab, errors, messages, mutate_vars,
                   view_vars, reads, selected, failed>>

\* the loop is over: lines 83 / 142 call fetch_all_accounts_grouped_by_lab
mutate_done ==
    /\ pc = "mutate"
    /\ acct_idx > Len(per_account_ids)
    /\ pc' = "aggregate"
    /\ status' = [t \in 1..N |-> "new"]
    /\ result' = [t \in 1..N |-> NO_RESULT]
    /\ UNCHANGED <<request_vars, world, target_lab, errors, messages, mutate_vars,
                   view_vars, reads, selected, failed>>

(***************************************************************************)
(* fetch_all_accounts_grouped_by_lab on the handler's thread.              *)
(***************************************************************************)
\* one turn of the as_completed loop, lines 236-241
fetch_collect(t) ==
    /\ pc = "aggregate"
    /\ with_status("new") = {}
    /\ status[t] = "finished"
    /\ status' = [status EXCEPT ![t] = "collected"]
    /\ labs_to_instances' = merge_grouped(labs_to_instances, result[t].payload)
    /\ fetch_errors' = fetch_errors \o result[t].errs
    /\ UNCHANGED <<request_vars, world, pc, target_lab, errors, messages, mutate_vars,
                   summary, overall, result, reads, selected, failed>>

\* lines 243-250, then the handler's summary and its response
\* (25-36, 84-96, 143-155)
fetch_return ==
    /\ pc = "aggregate"
    /\ \A t \in 1..N : status[t] = "collected"
    /\ labs_to_instances' = sort_labs(labs_to_instances)
    /\ summary' = summarize_labs(labs_to_instances')
    /\ overall' = compute_overall_counts(summary')
    /\ errors' = IF kind = "index" THEN config_errors \o fetch_errors
                 ELSE errors \o (config_errors \o fetch_errors)
    /\ pc' = "done"
    /\ UNCHANGED <<request_vars, world, target_lab, messages, mutate_vars,
                   fetch_errors, round_vars, reads, selected, failed>>

Next ==
    \/ index
    \/ stop_lab
    \/ start_lab
    \/ submit
    \/ worker_start
    \/ \E t \in 1..N : worker_return(t)
    \/ \E t \in 1..N : worker_raise(t)
    \/ \E t \in 1..N : select_collect(t)
    \/ select_done
    \/ stop_call_ok
    \/ stop_call_failed
    \/ start_call_ok
    \/ start_call_failed
    \/ mutate_done
    \/ \E t \in 1..N : fetch_collect(t)
    \/ fetch_return

Spec == Init /\ [][Next]_vars

(***************************************************************************)
(* Properties.                                                             *)
(***************************************************************************)
\* the instances of a view, as a set
view_instances(labs) == UNION {Range(labs[n].val) : n \in 1..Len(labs)}

\* what the listing of account t holds in the last state of a request
listed(t) == fetch_instances_for_account(accounts[t], world[t])

read_failed(round, t) == <<round, t>> \in failed

\* the view the aggregate round's results give when the futures complete in
\* the order of submission
RECURSIVE merged_in_order(_)
merged_in_order(n) ==
    IF n = 0 THEN <<>> ELSE merge_grouped(merged_in_order(n - 1), result[n].payload)

view_in_submission_order == sort_labs(merged_in_order(N))

\* C1: for fixed per-account listing results, the Grouped View a request
\* returns (the order of its label keys and the order of the instances of each
\* group) is the one every completion order gives, the order of submission
\* among them.
C1_ViewSameForEveryCompletionOrder ==
    pc = "done" => labs_to_instances = view_in_submission_order

\* the part of C1 that holds: the same groups with the same instance order
C1_GroupsSameForEveryCompletionOrder ==
    pc = "done" =>
        /\ Range(dict_keys(labs_to_instances)) = Range(dict_keys(view_in_submission_order))
        /\ \A key \in Range(dict_keys(labs_to_instances)) :
               dict_get(labs_to_instances, key) = dict_get(view_in_submission_order, key)

\* the accounts whose listing failed in the aggregate round
failed_in_aggregate == {t \in 1..N : read_failed("aggregate", t)}

\* C2: in a read-and-aggregate round over N >= 2 accounts in which exactly one
\* account's listing fails, every instance of the other accounts is in the
\* Grouped View, no instance of the failing account is, and the round's error
\* list holds exactly one string, which starts with the failing account's name.
C2_OneFailureIsolated ==
    (pc = "done" /\ N >= 2 /\ Cardinality(failed_in_aggregate) = 1) =>
        LET bad == CHOOSE t \in 1..N : read_failed("aggregate", t)
        IN  /\ \A t \in (1..N) \ {bad} :
                   Range(listed(t)) \subseteq view_instances(labs_to_instances)
            /\ \A x \in view_instances(labs_to_instances) :
                   x.account # accounts[bad].name
            /\ Len(fetch_errors) = 1
            /\ IsPrefix(accounts[bad].name \o <<":", " ">>, fetch_errors[1])

C2_Witness ==
    /\ pc = "done" /\ N >= 2 /\ Cardinality(failed_in_aggregate) = 1
    /\ \A t \in 1..N : world[t] # <<>>
    /\ view_instances(labs_to_instances) # {}

(***************************************************************************)
(* SpecChunk: the mutating step of one account, for every number of        *)
(* matched identifiers up to MaxIds.  It starts where a stop or start      *)
(* request over one account stands when its select round has matched n     *)
(* identifiers, and takes the steps of the mutating loop.                  *)
(***************************************************************************)
CHUNK_LAB == <<"L", "a", "b">>

\* n instances of the lab, all in the precondition state of the request
big_listing(n, op) ==
    [m \in 1..n |-> ec2(instance_id_of(m), IF op = "stop" THEN RUNNING ELSE STOPPED,
                        Some(CHUNK_LAB))]

InitChunk ==
    /\ kind \in {"stop", "start"}
    /\ lab_name = Some(CHUNK_LAB)
    /\ accounts = accounts_of(1)
    /\ config_errors = <<>>
    /\ world \in {<<big_listing(n, kind)>> : n \in 1..MaxIds}
    /\ pc = "mutate"
    /\ target_lab = CHUNK_LAB
    /\ errors = <<>>
    /\ result = <<IF kind = "stop"
                  THEN stop_collect_ok(accounts[1], world[1], target_lab)
                  ELSE start_collect_ok(accounts[1], world[1], target_lab)>>
    /\ status = <<"collected">>
    /\ selected = <<fetch_instances_for_account(accounts[1], world[1])>>
    /\ per_account_ids = <<[acct |-> 1, ids |-> result[1].payload]>>
    /\ messages = <<IF kind = "stop"
                    THEN stop_message(result[1].name, result[1].payload, target_lab)
                    ELSE start_message(result[1].name, result[1].payload, target_lab)>>
    /\ acct_idx = 1
    /\ chunk_i = 0
    /\ labs_to_instances = <<>>
    /\ fetch_errors = <<>>
    /\ summary = <<>>
    /\ overall = [total |-> 0, powered_up |-> 0, off |-> 0]
    /\ reads = <<[round |-> "select", acct |-> 1]>>
    /\ calls = <<>>
    /\ failed = {}

NextChunk ==
    \/ stop_call_ok
    \/ stop_call_failed
    \/ start_call_ok
    \/ start_call_failed

SpecChunk == InitChunk /\ [][NextChunk]_vars

\* the calls made against account a, in the order they were issued
calls_of(log, a) == SelectSeq(log, LAMBDA c : c.acct = a)

RECURSIVE concat_ids(_)
concat_ids(log) == IF log = <<>> THEN <<>> ELSE Head(log).ids \o concat_ids(Tail(log))

\* the accounts whose mutating step is over, and those of them no call failed for
step_over(j) == j < acct_idx

no_call_failed(a) == \A n \in 1..Len(calls) : calls[n].acct = a => calls[n].ok

\* C3: when no call fails, the mutating step of an account with n >= 1 matched
\* identifiers issues exactly ceil(n / 50) calls, each with 1 to 50
\* identifiers, and the calls' identifier lists, in issue order, concatenate
\* to the selection list.
C3_ChunksOfFifty ==
    /\ \A n \in 1..Len(calls) : Len(calls[n].ids) >= 1 /\ Len(calls[n].ids) <= 50
    /\ \A j \in 1..Len(per_account_ids) :
           (step_over(j) /\ no_call_failed(per_account_ids[j].acct)) =>
               LET ids    == per_account_ids[j].ids
                   issued == calls_of(calls, per_account_ids[j].acct)
               IN  /\ Len(ids) >= 1
                   /\ Len(issued) = (Len(ids) + 49) \div 50
                   /\ concat_ids(issued) = ids

\* 120 identifiers went out in three calls of 50, 50 and 20
C3_Witness ==
    /\ acct_idx = 2
    /\ Len(per_account_ids[1].ids) = 120
    /\ Len(calls) = 3
    /\ \A n \in 1..3 : calls[n].ok
    /\ <<Len(calls[1].ids), Len(calls[2].ids), Len(calls[3].ids)>> = <<50, 50, 20>>

control == kind \in {"stop", "start"}

\* the lab_name of the form is absent, empty or all whitespace
blank_label == ~lab_name.some \/ \A n \in 1..Len(lab_name.str) : lab_name.str[n] = " "

reads_of(round) == {n \in 1..Len(reads) : reads[n].round = round}

\* the aggregate round read every account once and the view holds what the
\* reads that succeeded returned
recomputed ==
    /\ \A t \in 1..N :
           Cardinality({n \in reads_of("aggregate") : reads[n].acct = t}) = 1
    /\ view_instances(labs_to_instances) =
           UNION {Range(listed(t)) : t \in (1..N) \ failed_in_aggregate}

count_of(e, list) == Cardinality({n \in 1..Len(list) : list[n] = e})

\* C4 as stated: a stop or start request with an empty or all-whitespace label
\* produces exactly one error, "Lab name is required.", makes no select read
\* and no mutating call, and returns the recomputed Grouped View.
C4_BlankLabelExactlyOneError ==
    (pc = "done" /\ control /\ blank_label) =>
        /\ errors = <<LAB_NAME_REQUIRED>>
        /\ reads_of("select") = {}
        /\ calls = <<>>
        /\ recomputed

\* C4 as amended: the validation produces exactly one error, "Lab name is
\* required.", the first of the response's error list, which holds besides it
\* only the configuration errors and one error per account whose recompute
\* read failed; no select read and no mutating call is ever made, and the
\* recomputed Grouped View is returned.
C4_BlankLabelShortCircuit ==
    (control /\ blank_label) =>
        /\ reads_of("select") = {}
        /\ calls = <<>>
        /\ pc = "done" =>
               /\ errors = <<LAB_NAME_REQUIRED>> \o config_errors \o fetch_errors
               /\ count_of(LAB_NAME_REQUIRED, errors) = 1
               /\ Len(fetch_errors) = Cardinality(failed_in_aggregate)
               /\ recomputed

C4_Witness ==
    /\ pc = "done" /\ kind = "stop" /\ lab_name = Some(<<" ", " ">>)
    /\ N = 2 /\ Cardinality(failed_in_aggregate) = 1
    /\ view_instances(labs_to_instances) # {}

precondition_state == IF kind = "stop" THEN RUNNING ELSE STOPPED

unlabeled(x) == ~x.lab.some \/ x.lab.str = <<>>

select_ok(t) ==
    /\ \E n \in reads_of("select") : reads[n].acct = t
    /\ ~read_failed("select", t)

ids_selected(t) ==
    UNION {Range(per_account_ids[j].ids) :
              j \in {m \in 1..Len(per_account_ids) : per_account_ids[m].acct = t}}

in_group(key, account_name, id) ==
    /\ dict_has(labs_to_instances, key)
    /\ \E x \in Range(dict_get(labs_to_instances, key)) :
           x.account = account_name /\ x.instance_id = id

\* C5: an instance without a lab tag (absent or empty) is in the group
\* "(no lab tag)" of the view; a stop (start) request for the literal
\* "(no lab tag)" selects it when it is running (stopped); and an instance in
\* the precondition state is selected exactly when the view holds it in the
\* group of the target label.
C5_NoLabTagRoundTrip ==
    pc = "done" =>
        /\ \A t \in (1..N) \ failed_in_aggregate : \A x \in Range(listed(t)) :
               unlabeled(x) => in_group(NO_LAB_TAG, x.account, x.instance_id)
        /\ (control /\ lab_name = Some(NO_LAB_TAG)) =>
               \A t \in {u \in 1..N : select_ok(u)} : \A x \in Range(selected[t]) :
                   (unlabeled(x) /\ x.state = precondition_state)
                       => x.instance_id \in ids_selected(t)
        /\ (control /\ ~blank_label) =>
               \A t \in {u \in 1..N : select_ok(u)} \ failed_in_aggregate :
                   \A x \in Range(selected[t]) :
                       x.state = precondition_state =>
                           (x.instance_id \in ids_selected(t)
                               <=> in_group(target_lab, x.account, x.instance_id))

C5_Witness ==
    /\ pc = "done" /\ kind = "stop" /\ lab_name = Some(NO_LAB_TAG)
    /\ \E t \in 1..N : \E x \in Range(selected[t]) :
           /\ ~x.lab.some
           /\ x.instance_id \in ids_selected(t)
           /\ in_group(NO_LAB_TAG, x.account, x.instance_id)
           /\ \E n \in 1..Len(calls) :
                  calls[n].acct = t /\ x.instance_id \in Range(calls[n].ids)

\* C6: every identifier passed to a mutating call is, in the select listing of
\* the account the call is made against, an instance of that account whose
\* normalized label is the target label and whose state is running for a stop
\* and stopped for a start.
C6_OnlyMatchedIdsMutated ==
    \A n \in 1..Len(calls) :
        /\ calls[n].op = kind
        /\ \A id \in Range(calls[n].ids) :
               LET found == {x \in Range(selected[calls[n].acct]) : x.instance_id = id}
               IN  /\ found # {}
                   /\ \A x \in found :
                          /\ x.account = accounts[calls[n].acct].name
                          /\ (IF x.lab.some /\ x.lab.str # <<>>
                              THEN x.lab.str ELSE NO_LAB_TAG) = target_lab
                          /\ x.state = (IF calls[n].op = "stop" THEN RUNNING ELSE STOPPED)

\* a call went out for an account that also lists an instance left alone
C6_Witness ==
    \E n \in 1..Len(calls) :
        /\ calls[n].ok
        /\ \E x \in Range(selected[calls[n].acct]) :
               x.instance_id \notin Range(calls[n].ids)

mutation_error_prefix(a) ==
    accounts[a].name \o
    (IF kind = "stop"
     THEN <<":", " ", "s", "t", "o", "p", " ", "f", "a", "i", "l", "e", "d", ":", " ">>
     ELSE <<":", " ", "s", "t", "a", "r", "t", " ", "f", "a", "i", "l", "e", "d", ":", " ">>)

\* C7: once the mutating loop is over, every account with matched identifiers
\* has received its mutating call, whichever accounts' calls failed, and an
\* account's failure is recorded as one error string of that account.
C7_MutationFailureIsolated ==
    (pc \in {"aggregate", "done"}) =>
        \A j \in 1..Len(per_account_ids) :
            LET a      == per_account_ids[j].acct
                issued == calls_of(calls, a)
            IN  /\ issued # <<>>
                /\ Cardinality({n \in 1..Len(errors) :
                                   IsPrefix(mutation_error_prefix(a), errors[n])})
                       = (IF no_call_failed(a) THEN 0 ELSE 1)
                /\ no_call_failed(a) => concat_ids(issued) = per_account_ids[j].ids

C7_Witness ==
    /\ pc = "done"
    /\ Len(per_account_ids) = 2
    /\ ~no_call_failed(per_account_ids[1].acct)
    /\ no_call_failed(per_account_ids[2].acct)
    /\ calls_of(calls, per_account_ids[2].acct) # <<>>

RECURSIVE seq_sum(_)
seq_sum(q) == IF q = <<>> THEN 0 ELSE Head(q) + seq_sum(Tail(q))

\* C8: the overall total is the sum of the group totals and the number of
\* instances of the view, and powered_up + off = total with off >= 0.
C8_SummaryConsistent ==
    pc = "done" =>
        /\ overall.total = seq_sum([n \in 1..Len(summary) |-> summary[n].val.total])
        /\ overall.total =
               seq_sum([n \in 1..Len(labs_to_instances) |-> Len(labs_to_instances[n].val)])
        /\ dict_keys(summary) = dict_keys(labs_to_instances)
        /\ overall.powered_up + overall.off = overall.total
        /\ overall.off >= 0

C8_Witness ==
    /\ pc = "done"
    /\ Len(labs_to_instances) >= 2
    /\ overall.powered_up >= 1
    /\ overall.off >= 1

(***************************************************************************)
(* SpecPool: the fan-out rounds of a request over up to MaxPoolAccounts    *)
(* accounts, more than the pool has threads.  The accounts hold no         *)
(* instance and their listing calls succeed.                               *)
(***************************************************************************)
InitPool ==
    /\ kind \in {"index", "stop", "start"}
    /\ lab_name = (IF kind = "index" THEN NoneStr ELSE Some(<<" ", "L", "a", "b", " ">>))
    /\ accounts \in {accounts_of(n) : n \in 0..MaxPoolAccounts}
    /\ config_errors = <<>>
    /\ world = [t \in 1..N |-> <<>>]
    /\ Locals

NextPool ==
    \/ index
    \/ stop_lab
    \/ start_lab
    \/ submit
    \/ worker_start
    \/ \E t \in 1..N : worker_return(t)
    \/ \E t \in 1..N : select_collect(t)
    \/ select_done
    \/ mutate_done
    \/ \E t \in 1..N : fetch_collect(t)
    \/ fetch_return

SpecPool == InitPool /\ [][NextPool]_vars

\* C9: in a select round and in an aggregate round over N accounts, at most
\* min(8, max(1, N)) per-account operations execute at the same time.
C9_BoundedConcurrency ==
    Cardinality(with_status("running")) <= (IF N = 0 THEN 1 ELSE IF N > 8 THEN 8 ELSE N)

\* eight operations execute and a ninth waits for a thread, in the aggregate
\* round of a stop request, whose select round went the same way
C9_Witness ==
    /\ kind = "stop" /\ pc = "aggregate"
    /\ Cardinality(reads_of("select")) > 8
    /\ Cardinality(with_status("running")) = 8
    /\ with_status("queued") # {}

(***************************************************************************)
(* The error list and the message list a request returns when every        *)
(* future completes in the order of submission, the per-account outcomes   *)
(* being those of the request.                                             *)
(***************************************************************************)
select_errs_of(t) ==
    IF ~read_failed("select", t) THEN <<>>
    ELSE IF kind = "stop" THEN stop_collect_failed(accounts[t], EXC).errs
    ELSE start_collect_failed(accounts[t], EXC).errs

select_ids_of(t) ==
    IF ~select_ok(t) THEN <<>>
    ELSE IF kind = "stop" THEN stop_ids(selected[t], target_lab)
    ELSE start_ids(selected[t], target_lab)

message_of(t) ==
    IF select_ids_of(t) = <<>> THEN <<>>
    ELSE IF kind = "stop"
         THEN <<stop_message(accounts[t].name, select_ids_of(t), target_lab)>>
         ELSE <<start_message(accounts[t].name, select_ids_of(t), target_lab)>>

mutation_errs_of(t) ==
    IF no_call_failed(t) THEN <<>>
    ELSE IF kind = "stop" THEN <<stop_error(accounts[t], EXC)>>
    ELSE <<start_error(accounts[t], EXC)>>

RECURSIVE select_errs_in_order(_)
select_errs_in_order(n) ==
    IF n = 0 THEN <<>> ELSE select_errs_in_order(n - 1) \o select_errs_of(n)

RECURSIVE messages_in_order(_)
messages_in_order(n) ==
    IF n = 0 THEN <<>> ELSE messages_in_order(n - 1) \o message_of(n)

RECURSIVE mutation_errs_in_order(_)
mutation_errs_in_order(n) ==
    IF n = 0 THEN <<>> ELSE mutation_errs_in_order(n - 1) \o mutation_errs_of(n)

RECURSIVE fetch_errs_in_order(_)
fetch_errs_in_order(n) ==
    IF n = 0 THEN <<>> ELSE fetch_errs_in_order(n - 1) \o result[n].errs

errors_in_submission_order ==
    IF kind = "index" THEN config_errors \o fetch_errs_in_order(N)
    ELSE (IF blank_label THEN <<LAB_NAME_REQUIRED>>
          ELSE select_errs_in_order(N) \o mutation_errs_in_order(N))
         \o config_errors \o fetch_errs_in_order(N)

\* C10: for fixed per-account results, the order of the strings of the
\* returned error list and of the message list is the same for every
\* completion order of the workers, the order of submission among them.
C10_ListsSameForEveryCompletionOrder ==
    pc = "done" =>
        /\ errors = errors_in_submission_order
        /\ messages = messages_in_order(N)

\* what holds of the two lists: they hold the same strings, each as often
C10_ListsSameUpToOrder ==
    pc = "done" =>
        /\ Len(errors) = Len(errors_in_submission_order)
        /\ \A e \in Range(errors) :
               count_of(e, errors) = count_of(e, errors_in_submission_order)
        /\ Len(messages) = Len(messages_in_order(N))
        /\ \A m \in Range(messages) :
               count_of(m, messages) = count_of(m, messages_in_order(N))

(***************************************************************************)
(* SpecFair: the handler's thread and the pool's threads keep running and  *)
(* every remote call returns or fails, so a step that can be taken is      *)
(* eventually taken.                                                       *)
(***************************************************************************)
\* the steps before the response, and the step that returns it (fetch_return,
\* which is enabled exactly when its guard holds: its assignments are total)
proceed ==
    \/ index
    \/ stop_lab
    \/ start_lab
    \/ submit
    \/ worker_start
    \/ \E t \in 1..N : worker_return(t)
    \/ \E t \in 1..N : worker_raise(t)
    \/ \E t \in 1..N : select_collect(t)
    \/ select_done
    \/ stop_call_ok
    \/ stop_call_failed
    \/ start_call_ok
    \/ start_call_failed
    \/ mutate_done
    \/ \E t \in 1..N : fetch_collect(t)

respond ==
    /\ pc = "aggregate"
    /\ \A t \in 1..N : status[t] = "collected"
    /\ pc' = "done"

SpecFair == Spec /\ WF_vars(proceed) /\ WF_pc(respond)

\* the response of a finished request: the view, the summaries computed of
\* it, and the error list with the configuration and recompute errors at its end
response_complete ==
    /\ pc = "done"
    /\ summary = summarize_labs(labs_to_instances)
    /\ overall = compute_overall_counts(summary)
    /\ \E n \in 0..Len(errors) :
           SubSeq(errors, n + 1, Len(errors)) = config_errors \o fetch_errors
    /\ \A t \in 1..N :
           Cardinality({n \in reads_of("aggregate") : reads[n].acct = t}) = 1

\* C11: every index, stop and start request eventually completes with a
\* response that holds a Grouped View, the summaries and the error list,
\* whichever reads and mutating calls fail, and the recompute round has read
\* every account by then.
C11_RequestCompletes == <>response_complete

\* a stop request completed although a select read, a mutating call and a
\* recompute read failed
C11_Witness ==
    /\ response_complete /\ kind = "stop"
    /\ \E t \in 1..N : read_failed("select", t)
    /\ \E n \in 1..Len(calls) : ~calls[n].ok
    /\ failed_in_aggregate # {}

\* the error strings of the response that report a failed listing of account t
listing_errors_of(t) ==
    {n \in 1..Len(errors) :
        IsPrefix(accounts[t].name \o
                 <<":", " ", "E", "r", "r", "o", "r", " ",
                   "f", "e", "t", "c", "h", "i", "n", "g", " ">>, errors[n])}

\* the instances of account t in the returned view
instances_of(t) ==
    {x \in view_instances(labs_to_instances) : x.account = accounts[t].name}

rounds_failed(t) == {round \in {"select", "aggregate"} : read_failed(round, t)}

\* C12: in any single request, a stop or start request with a non-empty label
\* included, an account whose listing call fails contributes no instance to
\* the returned view and exactly one error string to the response's error list.
C12_FailedListingOneErrorNoInstances ==
    pc = "done" =>
        \A t \in 1..N :
            rounds_failed(t) # {} =>
                /\ instances_of(t) = {}
                /\ Cardinality(listing_errors_of(t)) = 1

\* the listing calls of account t in a round
invocations(round, t) == {n \in reads_of(round) : reads[n].acct = t}

\* the round whose futures status and result hold
round_of_pc == IF pc \in {"select", "mutate"} THEN "select" ELSE "aggregate"

\* the outcome collected of account t: its listing, or one error and nothing else
one_outcome(round, t) ==
    /\ status[t] = "collected"
    /\ result[t].name = accounts[t].name
    /\ IF read_failed(round, t)
       THEN Len(result[t].errs) = 1 /\ result[t].payload = <<>>
       ELSE result[t].errs = <<>>

\* C13: every fan-out round invokes the per-account operation exactly once for
\* every submitted account and has collected one outcome per account, a result
\* or an error, when it ends; the failure of one account does not cancel the
\* invocation of another, and no round ends while an operation is pending.
C13_RoundRunsEveryAccountOnce ==
    /\ \A round \in {"select", "aggregate"} : \A t \in 1..N :
           Cardinality(invocations(round, t)) <= 1
    /\ pc \in {"mutate", "done"} =>
           \A t \in 1..N :
               /\ Cardinality(invocations(round_of_pc, t)) = 1
               /\ one_outcome(round_of_pc, t)
    /\ pc = "done" /\ control /\ target_lab # <<>> =>
           \A t \in 1..N : Cardinality(invocations("select", t)) = 1

\* a select round ended with the first account failed and the second listed
C13_Witness ==
    /\ pc = "mutate" /\ N = 2
    /\ read_failed("select", 1) /\ ~read_failed("select", 2)
    /\ reads[1].acct = 1 /\ reads[2].acct = 2
    /\ result[2].payload # <<>>

\* the containers the handler shares with its closures
containers == <<errors, fetch_errors, labs_to_instances, per_account_ids, messages>>

\* a step of a pool thread: a work item starts or completes
worker_step ==
    \E t \in 1..N : status'[t] # status[t] /\ status'[t] \in {"running", "finished"}

\* a step of the as_completed loop: the handler takes the result of a
\* completed work item
collects(t) ==
    /\ status[t] = "finished"
    /\ status' = [status EXCEPT ![t] = "collected"]
    /\ result' = result
    /\ IF pc = "select"
       THEN errors' = errors \o result[t].errs /\ fetch_errors' = fetch_errors
       ELSE fetch_errors' = fetch_errors \o result[t].errs /\ errors' = errors

\* C14: the error list, the grouped-view mapping, the per-account identifier
\* list and the message list are written by the handler's thread only, during a
\* round only with the result of a work item that has completed; no step of a
\* worker changes them.
C14_OnlyCoordinatorWrites ==
    [][ /\ worker_step => UNCHANGED containers
        /\ (pc \in {"select", "aggregate"} /\ pc' = pc /\ containers' # containers)
               => \E t \in 1..N : collects(t)
      ]_vars

\* the handler has recorded the error of one account while the listing of the
\* other is still running
C14_Witness ==
    /\ pc = "select"
    /\ \E t, u \in 1..N :
           /\ status[t] = "collected" /\ read_failed("select", t)
           /\ status[u] = "running"
    /\ errors # <<>>

\* the label an instance is known by
label_of(x) == IF unlabeled(x) THEN NO_LAB_TAG ELSE x.lab.str

\* the positions of the select listing of account t that carry the target
\* label and are in the precondition state; none when the read failed
matched(t) ==
    IF ~select_ok(t) THEN {}
    ELSE {k \in 1..Len(selected[t]) :
             /\ label_of(selected[t][k]) = target_lab
             /\ selected[t][k].state = precondition_state}

messages_about(t) ==
    {n \in 1..Len(messages) : IsPrefix(accounts[t].name \o <<":", " ">>, messages[n])}

\* "<account>: stopping <n> instance(s) in lab '<label>'", or starting
progress_message(t, n) ==
    accounts[t].name \o <<":", " ">>
    \o (IF kind = "stop" THEN <<"s", "t", "o", "p", "p", "i", "n", "g">>
        ELSE <<"s", "t", "a", "r", "t", "i", "n", "g">>)
    \o <<" ">> \o str_of_int(n)
    \o <<" ", "i", "n", "s", "t", "a", "n", "c", "e", "(", "s", ")", " ",
         "i", "n", " ", "l", "a", "b", " ", "'">>
    \o target_lab \o <<"'">>

\* C15: in a control request with a non-empty label an account receives a
\* mutating call iff its select read succeeded and matched an identifier; an
\* account whose read failed or matched nothing gets no call and no message,
\* and an account with n >= 1 matches gets exactly one message with its name,
\* n and the target label, whether its mutating call fails or not.
C15_MutatedIffMatched ==
    (control /\ target_lab # <<>> /\ pc \in {"aggregate", "done"}) =>
        \A t \in 1..N :
            LET n == Cardinality(matched(t)) IN
            /\ (calls_of(calls, t) # <<>>) <=> (n >= 1)
            /\ n = 0 => messages_about(t) = {}
            /\ n >= 1 => /\ Cardinality(messages_about(t)) = 1
                         /\ \A m \in messages_about(t) :
                                messages[m] = progress_message(t, n)

\* one account failed its select read, the other matched an instance and its
\* mutating call failed
C15_Witness ==
    /\ pc = "done" /\ control /\ N = 2
    /\ \E t, u \in 1..N :
           /\ read_failed("select", t) /\ calls_of(calls, t) = <<>>
           /\ Cardinality(matched(u)) = 1
           /\ ~calls_of(calls, u)[1].ok
           /\ messages = <<progress_message(u, 1)>>

\* the places of the view that hold instance x
occurrences(x) ==
    UNION {{<<n, m>> : m \in {k \in 1..Len(labs_to_instances[n].val) :
                                labs_to_instances[n].val[k] = x}} :
              n \in 1..Len(labs_to_instances)}

view_size == seq_sum([n \in 1..Len(labs_to_instances) |-> Len(labs_to_instances[n].val)])

listed_size ==
    seq_sum([t \in 1..N |-> IF read_failed("aggregate", t) THEN 0 ELSE Len(listed(t))])

\* C16: the aggregator neither drops nor deduplicates: every instance of a
\* successful listing is in the view exactly once, in the group of its
\* normalised label, the view has as many instances as the successful listings
\* together, and two instances of different accounts with the same identifier
\* are both there.
C16_NothingDroppedNothingMerged ==
    pc = "done" =>
        /\ view_size = listed_size
        /\ \A t \in (1..N) \ failed_in_aggregate : \A k \in 1..Len(listed(t)) :
               LET x == listed(t)[k] IN
               /\ Cardinality(occurrences(x)) = 1
               /\ \A place \in occurrences(x) :
                      labs_to_instances[place[1]].key = label_of(x)

\* two accounts list an instance with the same identifier under the same label
C16_Witness ==
    /\ pc = "done" /\ N = 2 /\ failed_in_aggregate = {}
    /\ \E j, k \in 1..2 :
           /\ j <= Len(listed(1)) /\ k <= Len(listed(2))
           /\ listed(1)[j].instance_id = listed(2)[k].instance_id
           /\ label_of(listed(1)[j]) = label_of(listed(2)[k])
           /\ listed(1)[j] # listed(2)[k]
    /\ view_size = 4

\* the instances of a group that are in a state, or in any other state
in_state(instances, state) ==
    {k \in 1..Len(instances) : instances[k].state = state}

not_in_state(instances, state) ==
    {k \in 1..Len(instances) : instances[k].state # state}

\* C17: powered_up of every group is the number of its instances whose state
\* is exactly running, and the overall off count is the number of instances in
\* any other state: stopped, transitional and unknown states count as off.
C17_RunningCountedOnly ==
    pc = "done" =>
        /\ \A n \in 1..Len(summary) :
               summary[n].val.powered_up =
                   Cardinality(in_state(labs_to_instances[n].val, RUNNING))
        /\ overall.off =
               seq_sum([n \in 1..Len(labs_to_instances) |->
                           Cardinality(not_in_state(labs_to_instances[n].val, RUNNING))])

\* a view with a running, a stopped, a pending and a stopping instance
C17_Witness ==
    /\ pc = "done"
    /\ \A state \in {RUNNING, STOPPED, PENDING, STOPPING} :
           \E n \in 1..Len(labs_to_instances) :
               in_state(labs_to_instances[n].val, state) # {}
    /\ overall.off >= 3

\* the listing with running and stopped exchanged
swap_state(state) ==
    IF state = RUNNING THEN STOPPED ELSE IF state = STOPPED THEN RUNNING ELSE state

swapped(instances) ==
    [k \in 1..Len(instances) |->
        [instances[k] EXCEPT !.state = swap_state(instances[k].state)]]

\* a string without the words stop and start
STOP_START_WORDS ==
    {<<"s", "t", "o", "p", "p", "i", "n", "g">>, <<"s", "t", "a", "r", "t", "i", "n", "g">>,
     <<"s", "t", "o", "p">>, <<"s", "t", "a", "r", "t">>}

word_at(s, w) == {p \in 1..Len(s) : p + Len(w) - 1 <= Len(s) /\ SubSeq(s, p, p + Len(w) - 1) = w}

in_word(s) == UNION {UNION {p..(p + Len(w) - 1) : p \in word_at(s, w)} : w \in STOP_START_WORDS}

unword(s) ==
    LET inside == in_word(s)
        keep   == SelectSeq([k \in 1..Len(s) |-> k], LAMBDA k : k \notin inside)
    IN  [j \in 1..Len(keep) |-> s[keep[j]]]

\* what the handler of the other kind computes
twin_target_lab(form_value) ==
    IF kind = "stop" THEN start_target_lab(form_value) ELSE stop_target_lab(form_value)

twin_max_workers(n_accounts) ==
    IF kind = "stop" THEN start_max_workers(n_accounts) ELSE stop_max_workers(n_accounts)

twin_ids(instances, target) ==
    IF kind = "stop" THEN start_ids(instances, target) ELSE stop_ids(instances, target)

twin_collect_failed(acct, exc) ==
    IF kind = "stop" THEN start_collect_failed(acct, exc) ELSE stop_collect_failed(acct, exc)

twin_message(acct_name, ids, target) ==
    IF kind = "stop" THEN start_message(acct_name, ids, target)
    ELSE stop_message(acct_name, ids, target)

twin_chunk(instance_ids, i) ==
    IF kind = "stop" THEN start_chunk(instance_ids, i) ELSE stop_chunk(instance_ids, i)

twin_chunk_size == IF kind = "stop" THEN start_chunk_size ELSE stop_chunk_size

twin_error(acct, exc) ==
    IF kind = "stop" THEN start_error(acct, exc) ELSE stop_error(acct, exc)

\* the entries of per_account_ids of account t
entries_of(t) == {j \in 1..Len(per_account_ids) : per_account_ids[j].acct = t}

\* C18: the start handler is the stop handler with the precondition state
\* running replaced by stopped and the stop call by the start call: on the
\* listings with the two states exchanged, the handler of the other kind
\* trims the label alike, runs as many workers, selects the same identifiers
\* of the same accounts, cuts them into the same chunks, and words the same
\* errors and messages up to the words stop and start.
C18_StartMirrorsStop ==
    (control /\ pc # "start") =>
        /\ target_lab = twin_target_lab(lab_name)
        /\ pc = "select" => Cardinality(with_status("running")) <= twin_max_workers(N)
        \* what the select round leaves to the mutating loop
        /\ pc = "mutate" =>
               /\ \A j \in 1..Len(per_account_ids) :
                      LET e == per_account_ids[j] IN
                      e.ids = twin_ids(swapped(selected[e.acct]), target_lab)
               /\ \A t \in 1..N :
                      /\ (select_ok(t) /\ entries_of(t) = {})
                             => twin_ids(swapped(selected[t]), target_lab) = <<>>
                      /\ read_failed("select", t)
                             => /\ entries_of(t) = {}
                                /\ \E n \in 1..Len(errors) :
                                       <<errors[n]>> = twin_collect_failed(accounts[t], EXC).errs
        \* the reads and calls made, and the lists of the response
        /\ pc = "done" =>
               /\ \A n \in 1..Len(reads) :
                      reads[n].round =
                          (IF n <= N /\ target_lab # <<>> THEN "select" ELSE "aggregate")
               /\ \A j \in 1..Len(per_account_ids) :
                      LET e  == per_account_ids[j]
                          cs == calls_of(calls, e.acct)
                      IN  /\ \A m \in 1..Len(cs) :
                                 /\ cs[m].op = kind
                                 /\ cs[m].ids = twin_chunk(e.ids, (m - 1) * twin_chunk_size)
                          /\ unword(messages[j]) =
                                 unword(twin_message(accounts[e.acct].name, e.ids, target_lab))
               /\ \A t \in 1..N :
                      /\ read_failed("select", t)
                             => \E n \in 1..Len(errors) :
                                    <<errors[n]>> = twin_collect_failed(accounts[t], EXC).errs
                      /\ ~no_call_failed(t)
                             => \E n \in 1..Len(errors) :
                                    /\ errors[n] # twin_error(accounts[t], EXC)
                                    /\ unword(errors[n]) = unword(twin_error(accounts[t], EXC))

\* a start request in which a select read failed, a stopped instance was
\* selected and its start call failed
C18_Witness ==
    /\ kind = "start" /\ pc = "done" /\ N = 2
    /\ \E t, u \in 1..N :
           /\ read_failed("select", t)
           /\ entries_of(u) # {} /\ ~no_call_failed(u)
           /\ stop_ids(swapped(selected[u]), target_lab) # <<>>
           /\ stop_ids(selected[u], target_lab) # stop_ids(swapped(selected[u]), target_lab)
    /\ Len(messages) = 1

\* the mutation errors recorded for account a
mutation_errors_of(a) ==
    {n \in 1..Len(errors) : IsPrefix(mutation_error_prefix(a), errors[n])}

\* the identifiers of the calls of account a that returned
ids_done(a) ==
    UNION {Range(calls[n].ids) : n \in {m \in 1..Len(calls) : calls[m].acct = a /\ calls[m].ok}}

\* the state a stopped or started instance lists as
transition_state == IF kind = "stop" THEN STOPPING ELSE PENDING

\* C19: within the mutating step of one account, when the call for chunk k
\* fails no call is issued for a later chunk of the account, the calls issued
\* for the chunks before k stay done, and exactly one mutation error is
\* recorded for the account.
C19_FailedChunkEndsTheAccount ==
    \A a \in 1..N :
        LET cs == calls_of(calls, a) IN
        /\ \A m \in 1..Len(cs) :
               /\ cs[m].op = kind
               /\ ~cs[m].ok => m = Len(cs)
        /\ Cardinality(mutation_errors_of(a)) = (IF no_call_failed(a) THEN 0 ELSE 1)
        /\ \A k \in 1..Len(world[a]) :
               world[a][k].State =
                   (IF world[a][k].InstanceId \in ids_done(a)
                    THEN transition_state ELSE precondition_state)

\* of 120 identifiers the first fifty are stopped, the call for the second
\* fifty failed and no call was made for the last twenty
C19_Witness ==
    /\ acct_idx = 2 /\ kind = "stop"
    /\ Len(per_account_ids[1].ids) = 120
    /\ Len(calls) = 2 /\ calls[1].ok /\ ~calls[2].ok
    /\ Len(calls[1].ids) = 50 /\ Len(calls[2].ids) = 50
    /\ Cardinality(mutation_errors_of(1)) = 1
    /\ Cardinality({k \in 1..Len(world[1]) : world[1][k].State = STOPPING}) = 50

\* the mutating step of entry j of per_account_ids is over: its last call
\* failed, or its calls took every identifier
account_done(j) ==
    LET cs == calls_of(calls, per_account_ids[j].acct)
    IN  /\ cs # <<>>
        /\ \/ ~cs[Len(cs)].ok
           \/ Len(concat_ids(cs)) = Len(per_account_ids[j].ids)

\* a step that issues a mutating call, and one that starts a listing call
call_issued == calls' # calls

read_started(round) == reads' # reads /\ reads'[Len(reads')].round = round

\* C20: the phases of a control request are strictly ordered: a mutating call
\* is issued only when every account's select read has completed and been
\* collected, mutating calls are issued one at a time, each returned or failed
\* before the next step, and a read of the recompute round starts only when
\* the last mutating call of every matched account has returned or failed.
C20_PhasesOrdered ==
    [][ /\ call_issued =>
               /\ calls' = Append(calls, calls'[Len(calls')])
               /\ reads' = reads /\ reads_of("aggregate") = {}
               /\ with_status("running") = {}
               /\ \A t \in 1..N :
                      /\ Cardinality(invocations("select", t)) = 1
                      /\ status[t] = "collected"
        /\ read_started("select") => calls = <<>> /\ calls' = calls
        /\ read_started("aggregate") =>
               /\ calls' = calls
               /\ \A j \in 1..Len(per_account_ids) : account_done(j)
      ]_vars

\* a recompute read is running after two accounts were mutated in turn
C20_Witness ==
    /\ pc = "aggregate" /\ control
    /\ Len(calls) = 2 /\ calls[1].acct # calls[2].acct
    /\ reads_of("aggregate") # {}
    /\ with_status("running") # {}

====
